---- MODULE Spec2Model ----
(***************************************************************************)
(* A model of package syncmap (sync_map.go): SynchronisedMap[T, U], a Go   *)
(* map guarded by one sync.RWMutex, instantiated at T = string, U = int as *)
(* in the package's tests.  Strings and byte slices are sequences of       *)
(* numbers (character codes, gob items).  A goroutine runs one method call *)
(* at a time, one lock-delimited step after the other.                     *)
(***************************************************************************)
EXTENDS Integers, Sequences, FiniteSets, TLC

\* ------------------------------------------------------------------ bounds
\* The largest value of type U that callers pass (the smallest is -1).
MaxVal == 1
\* The number of goroutines of TestSyncMap (N in the test).
NumWorkers == 4

\* ------------------------------------------------------------ the universe
\* The keys callers use: "a", "aa" and "b".
Keys == {<<97>>, <<97, 97>>, <<98>>}

\* The values callers use.
Values == -1 .. MaxVal

\* var r U: the zero value of the value type int.
Zero == 0

\* map[T]U{}: a map with no entries.
EmptyMap == [x \in {} |-> Zero]

\* Every map[T]U over Keys and Values.
Tables == UNION {[D -> Values] : D \in SUBSET Keys}

\* m[k] = v on a Go map: adds the key or replaces its value.
Put(tbl, k, v) == [x \in (DOMAIN tbl) \cup {k} |-> IF x = k THEN v ELSE tbl[x]]

\* delete(m, k) on a Go map: a no-op when the key is absent.
Delete(tbl, k) == [x \in (DOMAIN tbl) \ {k} |-> tbl[x]]

\* The orders in which `for k := range m` may visit the keys S of a map.
RangeOrders(S) ==
    {f \in [1 .. Cardinality(S) -> S] : \A i, j \in DOMAIN f : i # j => f[i] # f[j]}

\* The error values; Nil is Go's nil error, ErrDecode what gob's Decode returns.
Nil == "nil"
ErrMissingKey == "unknown key"
ErrKeyExists == "key already exists"
ErrDecode == "gob: decode failed"
ErrEncode == "gob: encode failed"

\* ------------------------------------------------------------ sorting keys
RECURSIVE StrLess(_, _)
\* keys[i] < keys[j] on Go strings: bytewise lexicographic order.
StrLess(a, b) ==
    IF a = <<>> THEN b # <<>>
    ELSE IF b = <<>> THEN FALSE
    ELSE IF Head(a) # Head(b) THEN Head(a) < Head(b)
    ELSE StrLess(Tail(a), Tail(b))

RECURSIVE SortInsert(_, _)
\* One key put in its place in a sorted slice.
SortInsert(sorted, k) ==
    IF sorted = <<>> THEN <<k>>
    ELSE IF StrLess(k, Head(sorted)) THEN <<k>> \o sorted
    ELSE <<Head(sorted)>> \o SortInsert(Tail(sorted), k)

RECURSIVE SortSlice(_)
\* sort.Slice(keys, less) with less the order of the key type.
SortSlice(keys) ==
    IF keys = <<>> THEN <<>>
    ELSE SortInsert(SortSlice(Tail(keys)), Head(keys))

\* SortedKeys as it would be without its call of sort.Slice.
SortedKeysUnsorted(order) == order

\* SortedKeys(m), order being the order in which range visited the keys of m.
SortedKeys(order) == SortSlice(order)

\* -------------------------------------------------- the methods, on a table
\* New: copies every pair of init into a fresh table.
New(init) == [k \in DOMAIN init |-> init[k]]

\* Insert as it would be if it stored the value before it looked at errIfExists.
InsertStoresFirst(tbl, k, v, errIfExists) ==
    IF k \in DOMAIN tbl /\ errIfExists
    THEN [m |-> Put(tbl, k, v), r |-> Zero, err |-> ErrKeyExists]
    ELSE [m |-> Put(tbl, k, v), r |-> IF k \in DOMAIN tbl THEN tbl[k] ELSE Zero,
          err |-> Nil]

\* Insert as it would be if it returned r, not old, after an overwrite.
InsertReturnsZero(tbl, k, v, errIfExists) ==
    IF k \in DOMAIN tbl /\ errIfExists
    THEN [m |-> tbl, r |-> Zero, err |-> ErrKeyExists]
    ELSE [m |-> Put(tbl, k, v), r |-> Zero, err |-> Nil]

\* Insert under the lock: the table afterwards, and the two results.
Insert(tbl, k, v, errIfExists) ==
    IF k \notin DOMAIN tbl
    THEN [m |-> Put(tbl, k, v), r |-> Zero, err |-> Nil]
    ELSE IF errIfExists
         THEN [m |-> tbl, r |-> Zero, err |-> ErrKeyExists]
         ELSE [m |-> Put(tbl, k, v), r |-> tbl[k], err |-> Nil]

\* Contains as it would be if it took the zero value for a missing key.
ContainsNonZero(tbl, id) == id \in DOMAIN tbl /\ tbl[id] # Zero

\* Contains under the lock: _, ok := s.m[id].
Contains(tbl, id) == id \in DOMAIN tbl

\* Get as it would be if it returned the other error of the package.
GetWrongError(tbl, id) ==
    IF id \in DOMAIN tbl
    THEN [r |-> tbl[id], err |-> Nil]
    ELSE [r |-> Zero, err |-> ErrKeyExists]

\* Get under the lock: the value and nil, or the zero value and ErrMissingKey.
Get(tbl, id) ==
    IF id \in DOMAIN tbl
    THEN [r |-> tbl[id], err |-> Nil]
    ELSE [r |-> Zero, err |-> ErrMissingKey]

\* Remove as it would be if it replaced the table by an empty one when the
\* key is there.
RemoveClears(tbl, id) == IF id \in DOMAIN tbl THEN EmptyMap ELSE tbl

\* Remove under the lock: delete(s.m, id).
Remove(tbl, id) == Delete(tbl, id)

\* Len as it would be if it counted the entries that hold a non-zero value.
MapLenNonZero(tbl) == Cardinality({k \in DOMAIN tbl : tbl[k] # Zero})

\* Len under the lock: len(s.m).
MapLen(tbl) == Cardinality(DOMAIN tbl)

\* One round of Merge's loop as it would be without the test for the key.
MergePairOverwrites(tbl, k, v) == Put(tbl, k, v)

\* One round of Merge's loop: the pair (k, v) goes in when k is missing.
MergePair(tbl, k, v) == IF k \notin DOMAIN tbl THEN Put(tbl, k, v) ELSE tbl

\* One round of snap's loop as it would be if it stored the zero value r.
SnapPairZero(copy, k, v) == Put(copy, k, Zero)

\* One round of snap's loop: m[k] = v.
SnapPair(copy, k, v) == Put(copy, k, v)

\* ------------------------------------------------------- encoding/gob
\* A gob stream is modelled as the sequence of its items, each a number:
\* <<item count of the message, type id, pair count, pairs...>>, a pair being
\* a string (its length, then its bytes) and a signed integer.

\* The type id gob gives map[string]int, and the id of some other type.
MapTypeId == 65
OtherTypeId == 66

\* gob's signed integer: i<<1 for i >= 0 and (^i<<1)|1 for i < 0.
EncInt(i) == IF i < 0 THEN 2 * (-i - 1) + 1 ELSE 2 * i

\* The integer a gob item stands for: u>>1, complemented when bit 0 is set.
DecInt(u) == IF u % 2 = 1 THEN -((u - 1) \div 2) - 1 ELSE u \div 2

\* gob's string: the length, then the bytes.
EncString(str) == <<Len(str)>> \o str

RECURSIVE EncPairs(_, _)
\* The pairs of the map, in the order range visits them.
EncPairs(tbl, order) ==
    IF order = <<>> THEN <<>>
    ELSE EncString(Head(order)) \o <<EncInt(tbl[Head(order)])>>
         \o EncPairs(tbl, Tail(order))

\* enc.Encode(m) for a map[string]int m whose keys range visits in `order`.
Encode(tbl, order) ==
    LET body == <<MapTypeId, Len(order)>> \o EncPairs(tbl, order)
    IN <<Len(body)>> \o body

RECURSIVE DecPairs(_, _, _, _)
\* Reads n pairs from item pos of the message body into acc.
DecPairs(body, pos, n, acc) ==
    IF n = 0
    THEN IF pos = Len(body) + 1
         THEN [m |-> acc, err |-> Nil]
         ELSE [m |-> EmptyMap, err |-> ErrDecode]
    ELSE IF pos > Len(body) \/ pos + body[pos] + 1 > Len(body)
         THEN [m |-> EmptyMap, err |-> ErrDecode]
         ELSE LET klen == body[pos]
                  key == SubSeq(body, pos + 1, pos + klen)
                  val == DecInt(body[pos + klen + 1])
              IN DecPairs(body, pos + klen + 2, n - 1, Put(acc, key, val))

\* dec.Decode(&m) into an empty map[string]int: the map and nil, or an error
\* for an empty or cut-off stream or a value of another type.
Decode(b) ==
    IF Len(b) = 0 \/ Len(b) < 1 + b[1] \/ b[1] < 2
    THEN [m |-> EmptyMap, err |-> ErrDecode]
    ELSE LET body == SubSeq(b, 2, 1 + b[1])
         IN IF body[1] # MapTypeId
            THEN [m |-> EmptyMap, err |-> ErrDecode]
            ELSE DecPairs(body, 3, body[2], EmptyMap)

\* ----------------------------------------------------------- fmt.Sprint
RECURSIVE Digits(_)
\* The decimal digits of n >= 0, as character codes.
Digits(n) == IF n < 10 THEN <<48 + n>> ELSE Digits(n \div 10) \o <<48 + (n % 10)>>

\* fmt.Sprint of an int: a minus sign for a negative number, then the digits.
SprintInt(n) == IF n < 0 THEN <<45>> \o Digits(-n) ELSE Digits(n)

\* fmt.Sprint of a string: the string.
SprintStr(str) == str

RECURSIVE WritePairsTrailing(_, _, _)
\* The loop of String as it would be with i < len(keys) for the separator.
WritePairsTrailing(snapshot, keys, i) ==
    IF i > Len(keys) THEN <<>>
    ELSE SprintStr(keys[i]) \o <<58>> \o SprintInt(snapshot[keys[i]])
         \o (IF i - 1 < Len(keys) THEN <<32>> ELSE <<>>)
         \o WritePairsTrailing(snapshot, keys, i + 1)

RECURSIVE WritePairs(_, _, _)
\* The loop of String over the sorted keys, from keys[i] on.
WritePairs(snapshot, keys, i) ==
    IF i > Len(keys) THEN <<>>
    ELSE SprintStr(keys[i]) \o <<58>> \o SprintInt(snapshot[keys[i]])
         \o (IF i - 1 < Len(keys) - 1 THEN <<32>> ELSE <<>>)
         \o WritePairs(snapshot, keys, i + 1)

\* String, once it has its snapshot: "map[" the pairs "]".
Format(snapshot, order) ==
    <<109, 97, 112, 91>> \o WritePairs(snapshot, SortedKeys(order), 1) \o <<93>>

\* The byte slices callers hand to Merge: what Bytes can return for some map,
\* such a slice cut off anywhere, and such a slice holding another type.
ValidPayloads ==
    UNION {{Encode(P, o) : o \in RangeOrders(DOMAIN P)} : P \in Tables}
CutOffPayloads ==
    UNION {{SubSeq(b, 1, n) : n \in 0 .. Len(b) - 1} : b \in ValidPayloads}
WrongTypePayloads == {[b EXCEPT ![2] = OtherTypeId] : b \in ValidPayloads}
Payloads == ValidPayloads \cup CutOffPayloads \cup WrongTypePayloads

\* ------------------------------------------------------------------- state
\* m:   for every instance s, the table s.m.
\* lck: for every instance s, the sync.RWMutex s.lck: w holds the goroutine
\*      that has the write lock or has announced itself for it, r the
\*      goroutines that have the read lock.
\* th:  for every goroutine, the call it runs: the instance s, its position
\*      pc, the method op, the arguments k, v, e, its local map loc with the
\*      keys still to range over in todo, and the results r, ok, err, out.
\*      pre is the table as it was when a Merge took the lock (a history
\*      field: no action reads it); saved is a result of an earlier call that
\*      the goroutine has kept in a variable of its own.
\* heap: the variables that values of a pointer type refer to, by address;
\*      there are none where U is int.
VARIABLES m, lck, th, heap

vars == <<m, lck, th, heap>>

\* No variable is pointed to.
NoHeap == [a \in {} |-> Zero]

None == "none"
NoKey == <<>>

\* A goroutine that runs no call.
IdleRec ==
    [s |-> None, pc |-> "idle", op |-> None, k |-> NoKey, v |-> Zero, e |-> FALSE,
     loc |-> EmptyMap, todo |-> {}, pre |-> EmptyMap,
     r |-> Zero, ok |-> FALSE, err |-> Nil, out |-> <<>>, saved |-> <<>>]

\* A goroutine entering method op of instance s: it reaches the lock call.
Entering(s, op) == [IdleRec EXCEPT !.s = s, !.pc = "wait", !.op = op]

\* The methods that take s.lck.Lock(); the others take s.lck.RLock().
WriteOps == {"Insert", "Remove", "Merge"}

\* An unlocked sync.RWMutex.
Unlocked == [w |-> {}, r |-> {}]

\* ----------------------------------------------------------------- s.lck
\* Lock as it would be if a writer did not wait for the writer inside.
LockNoWait(t) ==
    LET s == th[t].s
    IN /\ th[t].pc = "wait"
       /\ th[t].op \in WriteOps
       /\ lck' = [lck EXCEPT ![s].w = {t}]
       /\ th' = [th EXCEPT ![t].pc = "held",
                           ![t].todo = IF th[t].op = "Merge" THEN DOMAIN th[t].loc ELSE {},
                           ![t].pre = IF th[t].op = "Merge" THEN m[s] ELSE EmptyMap]
       /\ UNCHANGED <<m, heap>>

\* sync.RWMutex.Lock: one writer at a time announces itself, which keeps new
\* readers out; it has the lock once the readers inside have left.  Merge's
\* loop then ranges over the decoded map.
Lock(t) ==
    LET s == th[t].s
        in == lck[s].r = {}
    IN /\ th[t].pc = "wait"
       /\ th[t].op \in WriteOps
       /\ lck[s].w = {}
       /\ lck' = [lck EXCEPT ![s].w = {t}]
       /\ th' = [th EXCEPT ![t].pc = IF in THEN "held" ELSE "drain",
                           ![t].todo = IF th[t].op = "Merge" THEN DOMAIN th[t].loc ELSE {},
                           ![t].pre = IF in /\ th[t].op = "Merge" THEN m[s] ELSE EmptyMap]
       /\ UNCHANGED <<m, heap>>

\* The announced writer as it would go on with readers still inside.
LockDrainedEarly(t) ==
    LET s == th[t].s
    IN /\ th[t].pc = "drain"
       /\ th' = [th EXCEPT ![t].pc = "held",
                           ![t].pre = IF th[t].op = "Merge" THEN m[s] ELSE EmptyMap]
       /\ UNCHANGED <<m, lck, heap>>

\* The announced writer goes on when the last reader has left.
LockDrained(t) ==
    LET s == th[t].s
    IN /\ th[t].pc = "drain"
       /\ lck[s].r = {}
       /\ th' = [th EXCEPT ![t].pc = "held",
                           ![t].pre = IF th[t].op = "Merge" THEN m[s] ELSE EmptyMap]
       /\ UNCHANGED <<m, lck, heap>>

\* RLock as it would be if it let in one reader at a time.
RLockAlone(t) ==
    LET s == th[t].s
    IN /\ th[t].pc = "wait"
       /\ th[t].op \notin WriteOps
       /\ lck[s] = Unlocked
       /\ lck' = [lck EXCEPT ![s].r = {t}]
       /\ th' = [th EXCEPT ![t].pc = "held",
                           ![t].todo = IF th[t].op \in {"String", "Bytes"}
                                       THEN DOMAIN m[s] ELSE {}]
       /\ UNCHANGED <<m, heap>>

\* RLock as it would be if a reader did not wait for the writer inside.
RLockNoWait(t) ==
    LET s == th[t].s
    IN /\ th[t].pc = "wait"
       /\ th[t].op \notin WriteOps
       /\ lck' = [lck EXCEPT ![s].r = @ \cup {t}]
       /\ th' = [th EXCEPT ![t].pc = "held",
                           ![t].todo = IF th[t].op \in {"String", "Bytes"}
                                       THEN DOMAIN m[s] ELSE {}]
       /\ UNCHANGED <<m, heap>>

\* sync.RWMutex.RLock: blocks while a writer has or has announced the lock.
\* snap's loop then ranges over s.m.
RLock(t) ==
    LET s == th[t].s
    IN /\ th[t].pc = "wait"
       /\ th[t].op \notin WriteOps
       /\ lck[s].w = {}
       /\ lck' = [lck EXCEPT ![s].r = @ \cup {t}]
       /\ th' = [th EXCEPT ![t].pc = "held",
                           ![t].todo = IF th[t].op \in {"String", "Bytes"}
                                       THEN DOMAIN m[s] ELSE {}]
       /\ UNCHANGED <<m, heap>>

\* The method's return as it would be without its deferred unlock.
ReleaseNever(t) == lck

\* The deferred s.lck.Unlock() or s.lck.RUnlock() of the goroutine's method.
Release(t) ==
    IF th[t].op \in WriteOps
    THEN [lck EXCEPT ![th[t].s].w = {}]
    ELSE [lck EXCEPT ![th[t].s].r = @ \ {t}]

\* A Go map written by one goroutine while another reads or writes it is a
\* data race.  s.lck is what rules it out: Raced(t) says that another
\* goroutine is inside a critical section of the same instance together with
\* t, one of the two a writer.
Raced(t) ==
    \E u \in (DOMAIN th) \ {t} :
        /\ th[u].s = th[t].s
        /\ th[u].pc = "held"
        /\ (th[t].op \in WriteOps \/ th[u].op \in WriteOps)

\* What a write of goroutine t may leave in the table when it means to leave
\* tbl: tbl itself, or, after a data race, tbl with any of its entries lost.
Written(t, tbl) ==
    IF Raced(t)
    THEN {[k \in D |-> tbl[k]] : D \in SUBSET DOMAIN tbl}
    ELSE {tbl}

\* ------------------------------------------------------------- the methods
\* The body of Insert, then the deferred Unlock and the return.
InsertBody(t) ==
    /\ th[t].pc = "held"
    /\ th[t].op = "Insert"
    /\ LET res == Insert(m[th[t].s], th[t].k, th[t].v, th[t].e)
       IN /\ \E tbl \in Written(t, res.m) : m' = [m EXCEPT ![th[t].s] = tbl]
          /\ th' = [th EXCEPT ![t].pc = "done", ![t].r = res.r, ![t].err = res.err]
    /\ lck' = Release(t)
    /\ UNCHANGED heap

\* The body of GetKeys, then the deferred RUnlock and the return.
GetKeysBody(t) ==
    /\ th[t].pc = "held"
    /\ th[t].op = "GetKeys"
    /\ \E order \in RangeOrders(DOMAIN m[th[t].s]) :
         th' = [th EXCEPT ![t].pc = "done", ![t].out = SortedKeys(order)]
    /\ lck' = Release(t)
    /\ UNCHANGED <<m, heap>>

\* The body of Contains, then the deferred RUnlock and the return.
ContainsBody(t) ==
    /\ th[t].pc = "held"
    /\ th[t].op = "Contains"
    /\ th' = [th EXCEPT ![t].pc = "done", ![t].ok = Contains(m[th[t].s], th[t].k)]
    /\ lck' = Release(t)
    /\ UNCHANGED <<m, heap>>

\* The body of Get, then the deferred RUnlock and the return.
GetBody(t) ==
    /\ th[t].pc = "held"
    /\ th[t].op = "Get"
    /\ LET res == Get(m[th[t].s], th[t].k)
       IN th' = [th EXCEPT ![t].pc = "done", ![t].r = res.r, ![t].err = res.err]
    /\ lck' = Release(t)
    /\ UNCHANGED <<m, heap>>

\* The body of Remove, then the deferred Unlock and the return.
RemoveBody(t) ==
    /\ th[t].pc = "held"
    /\ th[t].op = "Remove"
    /\ \E tbl \in Written(t, Remove(m[th[t].s], th[t].k)) :
         m' = [m EXCEPT ![th[t].s] = tbl]
    /\ th' = [th EXCEPT ![t].pc = "done"]
    /\ lck' = Release(t)
    /\ UNCHANGED heap

\* The body of Len, then the deferred RUnlock and the return.
LenBody(t) ==
    /\ th[t].pc = "held"
    /\ th[t].op = "Len"
    /\ th' = [th EXCEPT ![t].pc = "done", ![t].r = MapLen(m[th[t].s])]
    /\ lck' = Release(t)
    /\ UNCHANGED <<m, heap>>

\* One round of snap's loop, under the read lock.
SnapStep(t) ==
    /\ th[t].pc = "held"
    /\ th[t].op \in {"String", "Bytes"}
    /\ \E k \in th[t].todo :
         th' = [th EXCEPT ![t].loc = IF k \in DOMAIN m[th[t].s]
                                     THEN SnapPair(@, k, m[th[t].s][k])
                                     ELSE @,
                          ![t].todo = @ \ {k}]
    /\ UNCHANGED <<m, lck, heap>>

\* snap returns its copy: the deferred RUnlock.
SnapReturn(t) ==
    /\ th[t].pc = "held"
    /\ th[t].op \in {"String", "Bytes"}
    /\ th[t].todo = {}
    /\ th' = [th EXCEPT ![t].pc = "snapped"]
    /\ lck' = Release(t)
    /\ UNCHANGED <<m, heap>>

\* String formats its snapshot, holding no lock.
StringFormat(t) ==
    /\ th[t].pc = "snapped"
    /\ th[t].op = "String"
    /\ \E order \in RangeOrders(DOMAIN th[t].loc) :
         th' = [th EXCEPT ![t].pc = "done", ![t].out = Format(th[t].loc, order)]
    /\ UNCHANGED <<m, lck, heap>>

\* Bytes encodes its snapshot, holding no lock; an int map always encodes.
BytesEncode(t) ==
    /\ th[t].pc = "snapped"
    /\ th[t].op = "Bytes"
    /\ \E order \in RangeOrders(DOMAIN th[t].loc) :
         th' = [th EXCEPT ![t].pc = "done", ![t].out = Encode(th[t].loc, order),
                          ![t].err = Nil]
    /\ UNCHANGED <<m, lck, heap>>

RECURSIVE PairsBeforeError(_, _, _, _)
\* The pairs DecPairs has read when it stops, with or without an error.
PairsBeforeError(body, pos, n, acc) ==
    IF n = 0 \/ pos > Len(body) \/ pos + body[pos] + 1 > Len(body)
    THEN acc
    ELSE PairsBeforeError(body, pos + body[pos] + 2, n - 1,
                          Put(acc, SubSeq(body, pos + 1, pos + body[pos]),
                              DecInt(body[pos + body[pos] + 1])))

\* Merge as it would be if it decoded straight into s.m: dec.Decode(&s.m).
MergeDecodeInPlace(t, s, b) ==
    LET d == Decode(b)
        got == IF Len(b) >= 3 /\ b[2] = MapTypeId
               THEN PairsBeforeError(Tail(b), 3, b[3], m[s])
               ELSE m[s]
    IN /\ th' = [th EXCEPT ![t] = [IdleRec EXCEPT !.s = s, !.pc = "done",
                                                  !.op = "Merge", !.err = d.err]]
       /\ m' = [m EXCEPT ![s] = got]
       /\ UNCHANGED <<lck, heap>>

\* Merge(b) on instance s up to its lock call: the slice is decoded into a
\* local map; a failed decode returns the error at once.
MergeDecode(t, s, b) ==
    LET d == Decode(b)
    IN /\ th' = [th EXCEPT ![t] =
                   IF d.err # Nil
                   THEN [IdleRec EXCEPT !.s = s, !.pc = "done", !.op = "Merge",
                                        !.err = d.err]
                   ELSE [Entering(s, "Merge") EXCEPT !.loc = d.m]]
       /\ UNCHANGED <<m, lck, heap>>

\* One round of Merge's loop, under the write lock.
MergeStep(t) ==
    /\ th[t].pc = "held"
    /\ th[t].op = "Merge"
    /\ \E k \in th[t].todo :
         /\ \E tbl \in Written(t, MergePair(m[th[t].s], k, th[t].loc[k])) :
              m' = [m EXCEPT ![th[t].s] = tbl]
         /\ th' = [th EXCEPT ![t].todo = @ \ {k}]
    /\ UNCHANGED <<lck, heap>>

\* Merge returns nil: the deferred Unlock.
MergeReturn(t) ==
    /\ th[t].pc = "held"
    /\ th[t].op = "Merge"
    /\ th[t].todo = {}
    /\ th' = [th EXCEPT ![t].pc = "done", ![t].err = Nil]
    /\ lck' = Release(t)
    /\ UNCHANGED <<m, heap>>

\* ------------------------------------------------- a goroutine of a caller
\* The caller's goroutines, and the one instance they share.
Threads == {"g1"}
Instances == {"c1"}

\* The caller calls Insert(k, v, errIfExists).
InsertCall(t) ==
    /\ th[t].pc = "idle"
    /\ \E s \in DOMAIN m, k \in Keys, v \in Values, e \in BOOLEAN :
         th' = [th EXCEPT ![t] = [Entering(s, "Insert") EXCEPT !.k = k, !.v = v, !.e = e]]
    /\ UNCHANGED <<m, lck, heap>>

\* The caller calls Get(id), Contains(id) or Remove(id).
KeyCall(t) ==
    /\ th[t].pc = "idle"
    /\ \E s \in DOMAIN m, op \in {"Get", "Contains", "Remove"}, k \in Keys :
         th' = [th EXCEPT ![t] = [Entering(s, op) EXCEPT !.k = k]]
    /\ UNCHANGED <<m, lck, heap>>

\* The caller calls Len(), GetKeys(), String() or Bytes().
PlainCall(t) ==
    /\ th[t].pc = "idle"
    /\ \E s \in DOMAIN m, op \in {"Len", "GetKeys", "String", "Bytes"} :
         th' = [th EXCEPT ![t] = Entering(s, op)]
    /\ UNCHANGED <<m, lck, heap>>

\* The caller calls Merge(b).
MergeCall(t) ==
    /\ th[t].pc = "idle"
    /\ \E s \in DOMAIN m, b \in Payloads : MergeDecode(t, s, b)

\* The caller has its results and is free to make the next call.
Return(t) ==
    /\ th[t].pc = "done"
    /\ th' = [th EXCEPT ![t] = IdleRec]
    /\ UNCHANGED <<m, lck, heap>>

\* Construction: every instance is New(init) for some initial mapping.
Init ==
    /\ m \in [Instances -> {New(init) : init \in Tables}]
    /\ lck = [s \in Instances |-> Unlocked]
    /\ th = [t \in Threads |-> IdleRec]
    /\ heap = NoHeap

Next ==
    \E t \in Threads :
        \/ InsertCall(t)
        \/ KeyCall(t)
        \/ PlainCall(t)
        \/ MergeCall(t)
        \/ Return(t)
        \/ Lock(t)
        \/ RLock(t)
        \/ InsertBody(t)
        \/ GetKeysBody(t)
        \/ ContainsBody(t)
        \/ GetBody(t)
        \/ RemoveBody(t)
        \/ LenBody(t)
        \/ SnapStep(t)
        \/ SnapReturn(t)
        \/ StringFormat(t)
        \/ BytesEncode(t)
        \/ MergeStep(t)
        \/ MergeReturn(t)

\* One goroutine calling the methods of one instance, in any order.
Spec == Init /\ [][Next]_vars

\* --------------------------------------------------------- TestSyncMap
\* The test's goroutines: worker n for n in 0 .. N-1, and the test itself.
Workers == 0 .. NumWorkers - 1
Tester == NumWorkers

\* m := New(map[string]int{}); no goroutine has run yet.
InitInsertN ==
    /\ m = [c \in {"m"} |-> New(EmptyMap)]
    /\ lck = [c \in {"m"} |-> Unlocked]
    /\ th = [t \in Workers \cup {Tester} |-> [IdleRec EXCEPT !.pc = "start"]]
    /\ heap = NoHeap

\* Worker n: m.Insert(fmt.Sprint(n), n, false).
WorkerInsert(n) ==
    /\ th[n].pc = "start"
    /\ th' = [th EXCEPT ![n] = [Entering("m", "Insert") EXCEPT
                                   !.k = SprintInt(n), !.v = n, !.e = FALSE]]
    /\ UNCHANGED <<m, lck, heap>>

\* The test: wg.Wait(), then m.Len().
TesterLen ==
    /\ th[Tester].pc = "start"
    /\ \A n \in Workers : th[n].pc = "done"
    /\ th' = [th EXCEPT ![Tester] = Entering("m", "Len")]
    /\ UNCHANGED <<m, lck, heap>>

NextInsertN ==
    \/ \E n \in Workers :
        \/ WorkerInsert(n)
        \/ Lock(n)
        \/ InsertBody(n)
    \/ TesterLen
    \/ RLock(Tester)
    \/ LenBody(Tester)

\* TestSyncMap: N goroutines insert N distinct keys, then the test asks Len.
SpecInsertN == InitInsertN /\ [][NextInsertN]_vars

\* ------------------------------------------------------ TestSyncMapBytes
\* c1 := New(init) for any initial mapping, c2 := New(map[string]int{}).
InitRoundTrip ==
    /\ \E init \in Tables : m = [c \in {"c1", "c2"} |->
                                   IF c = "c1" THEN New(init) ELSE New(EmptyMap)]
    /\ lck = [c \in {"c1", "c2"} |-> Unlocked]
    /\ th = [t \in {"test"} |-> [IdleRec EXCEPT !.pc = "start"]]
    /\ heap = NoHeap

\* b, err := c1.Bytes()
TestBytes(t) ==
    /\ th[t].pc = "start"
    /\ th' = [th EXCEPT ![t] = Entering("c1", "Bytes")]
    /\ UNCHANGED <<m, lck, heap>>

\* err = c2.Merge(b), when Bytes returned no error.
TestMerge(t) ==
    /\ th[t].pc = "done"
    /\ th[t].op = "Bytes"
    /\ th[t].err = Nil
    /\ MergeDecode(t, "c2", th[t].out)

\* c1.String(), when Merge returned no error.
TestString1(t) ==
    /\ th[t].pc = "done"
    /\ th[t].op = "Merge"
    /\ th[t].err = Nil
    /\ th' = [th EXCEPT ![t] = Entering("c1", "String")]
    /\ UNCHANGED <<m, lck, heap>>

\* c2.String(), to compare with what c1.String() returned.
TestString2(t) ==
    /\ th[t].pc = "done"
    /\ th[t].op = "String"
    /\ th[t].s = "c1"
    /\ th' = [th EXCEPT ![t] = [Entering("c2", "String") EXCEPT !.saved = th[t].out]]
    /\ UNCHANGED <<m, lck, heap>>

NextRoundTrip ==
    \E t \in {"test"} :
        \/ TestBytes(t)
        \/ TestMerge(t)
        \/ TestString1(t)
        \/ TestString2(t)
        \/ Lock(t)
        \/ RLock(t)
        \/ SnapStep(t)
        \/ SnapReturn(t)
        \/ BytesEncode(t)
        \/ StringFormat(t)
        \/ MergeStep(t)
        \/ MergeReturn(t)

\* TestSyncMapBytes for every initial mapping of c1.
SpecRoundTrip == InitRoundTrip /\ [][NextRoundTrip]_vars

\* ------------------------------------------- New, where U is a pointer type
\* Here m is all the Go maps of the program: the map "init" that the caller
\* hands to New, and the map that New makes for the instance.  The values are
\* pointers: the addresses of variables in heap.
PtrKeys == {<<97>>, <<98>>}
Addrs == {1, 2}
PtrTables == UNION {[D -> Addrs] : D \in SUBSET PtrKeys}

\* New as it would be if it kept the caller's map: m: init.
InstanceMapAliased == "init"

\* m: map[T]U{}: the instance gets a map of its own.
InstanceMap == "c"

\* The caller has its map and the variables its values point to.
InitNew ==
    /\ \E init \in PtrTables : m = [o \in {"init"} |-> init]
    /\ lck = [o \in {} |-> Unlocked]
    /\ th = [t \in {"caller"} |-> [IdleRec EXCEPT !.pc = "start"]]
    /\ heap \in [Addrs -> Values]

\* c := New(init)
NewCall(t) ==
    /\ th[t].pc = "start"
    /\ m' = (InstanceMap :> New(m["init"])) @@ m
    /\ lck' = (InstanceMap :> Unlocked) @@ lck
    /\ th' = [th EXCEPT ![t] = IdleRec]
    /\ UNCHANGED heap

\* The caller changes its own map: init[k] = p.
OwnerStore(t) ==
    /\ th[t].pc = "idle"
    /\ \E k \in PtrKeys, p \in Addrs : m' = [m EXCEPT !["init"] = Put(@, k, p)]
    /\ UNCHANGED <<lck, th, heap>>

\* The caller changes its own map: delete(init, k).
OwnerDelete(t) ==
    /\ th[t].pc = "idle"
    /\ \E k \in DOMAIN m["init"] : m' = [m EXCEPT !["init"] = Delete(@, k)]
    /\ UNCHANGED <<lck, th, heap>>

\* The caller changes a variable through a value of its map: *init[k] = v.
OwnerWrite(t) ==
    /\ th[t].pc = "idle"
    /\ \E k \in DOMAIN m["init"], v \in Values :
         /\ heap[m["init"][k]] # v
         /\ heap' = [heap EXCEPT ![m["init"][k]] = v]
    /\ UNCHANGED <<m, lck, th>>

\* The caller calls c.Insert(k, p, false) or c.Remove(k).
PtrCall(t) ==
    /\ th[t].pc = "idle"
    /\ \/ \E k \in PtrKeys, p \in Addrs :
            th' = [th EXCEPT ![t] = [Entering(InstanceMap, "Insert") EXCEPT
                                        !.k = k, !.v = p]]
       \/ \E k \in PtrKeys :
            th' = [th EXCEPT ![t] = [Entering(InstanceMap, "Remove") EXCEPT !.k = k]]
    /\ UNCHANGED <<m, lck, heap>>

NextNew ==
    \E t \in {"caller"} :
        \/ NewCall(t)
        \/ OwnerStore(t)
        \/ OwnerDelete(t)
        \/ OwnerWrite(t)
        \/ PtrCall(t)
        \/ Lock(t)
        \/ InsertBody(t)
        \/ RemoveBody(t)
        \/ Return(t)

\* New(init) for a map of pointers, then the caller goes on using both.
SpecNew == InitNew /\ [][NextNew]_vars

\* ------------------------------------ goroutines inserting at the same key
\* The goroutines of Workers all call Insert(k, n + 1, true) with the same
\* key k, which the instance lacks; nothing else runs.
InitInsertSame ==
    /\ \E k \in Keys, init \in Tables :
         /\ k \notin DOMAIN init
         /\ m = [c \in {"m"} |-> New(init)]
         /\ th = [n \in Workers |-> [IdleRec EXCEPT !.pc = "start", !.k = k]]
    /\ lck = [c \in {"m"} |-> Unlocked]
    /\ heap = NoHeap

\* Goroutine n: m.Insert(k, n + 1, true).
InsertSame(n) ==
    /\ th[n].pc = "start"
    /\ th' = [th EXCEPT ![n] = [Entering("m", "Insert") EXCEPT
                                   !.k = th[n].k, !.v = n + 1, !.e = TRUE]]
    /\ UNCHANGED <<m, lck, heap>>

NextInsertSame ==
    \E n \in Workers :
        \/ InsertSame(n)
        \/ Lock(n)
        \/ InsertBody(n)

SpecInsertSame == InitInsertSame /\ [][NextInsertSame]_vars

\* ------------------------------------- an Insert and a Merge at the same key
\* One goroutine calls Insert(k, v, false) and another Merge(b), where b
\* holds a pair of k; the instance lacks k, and nothing else runs.
InitInsertMerge ==
    /\ \E k \in Keys, init \in Tables :
         /\ k \notin DOMAIN init
         /\ m = [c \in {"c1"} |-> New(init)]
         /\ th = [t \in {"inserter", "merger"} |->
                    [IdleRec EXCEPT !.pc = "start", !.k = k]]
    /\ lck = [c \in {"c1"} |-> Unlocked]
    /\ heap = NoHeap

\* The one goroutine: Insert(k, v, false).
InserterCall(t) ==
    /\ t = "inserter"
    /\ th[t].pc = "start"
    /\ \E v \in Values :
         th' = [th EXCEPT ![t] = [Entering("c1", "Insert") EXCEPT
                                     !.k = th[t].k, !.v = v, !.e = FALSE]]
    /\ UNCHANGED <<m, lck, heap>>

\* The other: Merge(b), for any b that Bytes returns for a map with k.
MergerCall(t) ==
    /\ t = "merger"
    /\ th[t].pc = "start"
    /\ \E b \in ValidPayloads :
         /\ th[t].k \in DOMAIN Decode(b).m
         /\ MergeDecode(t, "c1", b)

NextInsertMerge ==
    \E t \in {"inserter", "merger"} :
        \/ InserterCall(t)
        \/ MergerCall(t)
        \/ Lock(t)
        \/ InsertBody(t)
        \/ MergeStep(t)
        \/ MergeReturn(t)

SpecInsertMerge == InitInsertMerge /\ [][NextInsertMerge]_vars

\* ------------------------------------------- goroutines sharing an instance
\* Two goroutines call the methods of one instance at the same time, with
\* the keys "a" and "b", the value 1, and a payload of Bytes for the map
\* {"a": -1, "b": -1}, whole or cut off.
Goroutines == {"g1", "g2"}
SharedKeys == {<<97>>, <<98>>}
SharedTables == UNION {[D -> {-1, 1}] : D \in SUBSET SharedKeys}
SharedPayload == Encode([k \in SharedKeys |-> -1], <<<<97>>, <<98>>>>)
CutOffPayload == SubSeq(SharedPayload, 1, Len(SharedPayload) - 1)

InitShared ==
    /\ \E init \in SharedTables : m = [c \in {"c1"} |-> New(init)]
    /\ lck = [c \in {"c1"} |-> Unlocked]
    /\ th = [t \in Goroutines |-> IdleRec]
    /\ heap = NoHeap

\* A goroutine calls Insert(k, 1, false) or Remove(k).
SharedWriteCall(t) ==
    /\ th[t].pc = "idle"
    /\ \E k \in SharedKeys :
         \/ th' = [th EXCEPT ![t] = [Entering("c1", "Insert") EXCEPT !.k = k, !.v = 1]]
         \/ th' = [th EXCEPT ![t] = [Entering("c1", "Remove") EXCEPT !.k = k]]
    /\ UNCHANGED <<m, lck, heap>>

\* A goroutine calls Merge(b).
SharedMergeCall(t) ==
    /\ th[t].pc = "idle"
    /\ \E b \in {SharedPayload, CutOffPayload} : MergeDecode(t, "c1", b)

\* A goroutine calls Get(id), Contains(id), Len(), GetKeys(), String() or
\* Bytes().
SharedReadCall(t) ==
    /\ th[t].pc = "idle"
    /\ \/ \E op \in {"Get", "Contains"}, k \in SharedKeys :
            th' = [th EXCEPT ![t] = [Entering("c1", op) EXCEPT !.k = k]]
       \/ \E op \in {"Len", "GetKeys", "String", "Bytes"} :
            th' = [th EXCEPT ![t] = Entering("c1", op)]
    /\ UNCHANGED <<m, lck, heap>>

\* Bytes where enc.Encode fails, as it does for a value type that gob cannot
\* encode: the error is returned; snap has released the lock before.
BytesEncodeFails(t) ==
    /\ th[t].pc = "snapped"
    /\ th[t].op = "Bytes"
    /\ th' = [th EXCEPT ![t].pc = "done", ![t].err = ErrEncode]
    /\ UNCHANGED <<m, lck, heap>>

\* The steps of a goroutine inside a method of the instance.
MethodStep(t) ==
    \/ Lock(t)
    \/ LockDrained(t)
    \/ RLock(t)
    \/ InsertBody(t)
    \/ GetKeysBody(t)
    \/ ContainsBody(t)
    \/ GetBody(t)
    \/ RemoveBody(t)
    \/ LenBody(t)
    \/ SnapStep(t)
    \/ SnapReturn(t)
    \/ StringFormat(t)
    \/ BytesEncode(t)
    \/ BytesEncodeFails(t)
    \/ MergeStep(t)
    \/ MergeReturn(t)

NextShared ==
    \E t \in Goroutines :
        \/ SharedWriteCall(t)
        \/ SharedMergeCall(t)
        \/ SharedReadCall(t)
        \/ Return(t)
        \/ MethodStep(t)

\* Two goroutines calling the methods of one instance, in any interleaving.
SpecShared == InitShared /\ [][NextShared]_vars

\* The same under fair scheduling.  The Go scheduler lets every runnable
\* goroutine run, so a goroutine inside a method goes on (WF).  A goroutine
\* blocked in Lock or RLock is queued by the mutex: sync.Mutex hands the lock
\* over to a waiter that has waited long (starvation mode), and
\* RWMutex.Unlock wakes every blocked reader before a later writer can come
\* in, so one that could get the lock again and again does get it (SF).
FairShared ==
    \A t \in Goroutines :
        /\ WF_vars(MethodStep(t))
        /\ SF_vars(Lock(t))
        /\ SF_vars(RLock(t))

SpecSharedFair == SpecShared /\ FairShared

\* ------------------------------------------------------------ properties
\* The step in which goroutine t leaves the body of method op and returns.
Returns(t, op) == th[t].pc = "held" /\ th[t].op = op /\ th'[t].pc = "done"

\* C1: when N goroutines have each inserted one key of N distinct keys, every
\* key is in the table and the Len() the test then calls returns N, whatever
\* the interleaving of the goroutines was.
C1_ConcurrentInsertCount ==
    /\ (\A n \in Workers : th[n].pc = "done")
         => DOMAIN m["m"] = {SprintInt(n) : n \in Workers}
    /\ (th[Tester].pc = "done") => (th[Tester].r = NumWorkers)

\* The test has its Len() after all the workers returned.
C1_Witness == th[Tester].pc = "done" /\ th[Tester].op = "Len"

\* C2: a Merge that returns nil, of a payload that decodes to P, into a table
\* that was M when Merge took the lock, leaves exactly the keys of M and P,
\* every key of M with its old value and every other key with P's value.
C2_MergeAdditive ==
    \A t \in DOMAIN th :
        (th[t].op = "Merge" /\ th[t].pc = "done" /\ th[t].err = Nil) =>
            LET M == th[t].pre
                P == th[t].loc
                now == m[th[t].s]
            IN /\ DOMAIN now = (DOMAIN M) \cup (DOMAIN P)
               /\ \A k \in DOMAIN M : now[k] = M[k]
               /\ \A k \in (DOMAIN P) \ (DOMAIN M) : now[k] = P[k]

\* A Merge has returned whose payload held a key of the table with another
\* value, and a key the table lacked.
C2_Witness ==
    \E t \in DOMAIN th :
        /\ th[t].op = "Merge" /\ th[t].pc = "done" /\ th[t].err = Nil
        /\ \E k \in (DOMAIN th[t].pre) \cap (DOMAIN th[t].loc) :
               th[t].pre[k] # th[t].loc[k]
        /\ (DOMAIN th[t].loc) \ (DOMAIN th[t].pre) # {}

\* C3: a Merge that returns an error returns it from its decoding, before it
\* takes the lock, and the step leaves every table as it was.
C3_MergeDecodeErrorKeepsTable ==
    [][\A t \in DOMAIN th :
          (th[t].pc # "done" /\ th'[t].pc = "done" /\ th'[t].op = "Merge"
             /\ th'[t].err # Nil)
          => (th[t].pc \in {"idle", "start"} /\ th'[t].err = ErrDecode /\ m' = m)]_vars

\* Merge has returned a decoding error on an instance that holds entries.
C3_Witness ==
    \E t \in DOMAIN th :
        /\ th[t].op = "Merge" /\ th[t].pc = "done" /\ th[t].err = ErrDecode
        /\ DOMAIN m[th[t].s] # {}

\* C4: for every table M of c1, c2.Merge(b) of the bytes b that c1.Bytes()
\* returned succeeds on the empty c2 and leaves c2 holding exactly M, and
\* c2.String() then equals c1.String().
C4_RoundTrip ==
    \A t \in DOMAIN th :
        /\ (th[t].op \in {"Bytes", "Merge"} /\ th[t].pc = "done") => th[t].err = Nil
        /\ (th[t].op = "Merge" /\ th[t].pc = "done") => m["c2"] = m["c1"]
        /\ (th[t].op = "String" /\ th[t].s = "c2" /\ th[t].pc = "done")
             => th[t].out = th[t].saved

\* The test has both strings, of a table with three keys and a negative value.
C4_Witness ==
    \E t \in DOMAIN th :
        /\ th[t].op = "String" /\ th[t].s = "c2" /\ th[t].pc = "done"
        /\ DOMAIN m["c1"] = Keys
        /\ \E k \in Keys : m["c1"][k] < 0

\* C5: Insert(k, v, true) on a key that is present leaves every table as it
\* was and returns the zero value with ErrKeyExists.
C5_InsertExistingFails ==
    [][\A t \in DOMAIN th :
          (Returns(t, "Insert") /\ th[t].e /\ th[t].k \in DOMAIN m[th[t].s])
          => (m' = m /\ th'[t].r = Zero /\ th'[t].err = ErrKeyExists)]_vars

\* Insert has returned ErrKeyExists for a key whose value is neither zero nor
\* the value passed.
C5_Witness ==
    \E t \in DOMAIN th :
        /\ th[t].op = "Insert" /\ th[t].pc = "done" /\ th[t].err = ErrKeyExists
        /\ m[th[t].s][th[t].k] \notin {Zero, th[t].v}

\* C6: Insert returns nil exactly when the key is absent or errIfExists is
\* false; then the key maps to the value passed, every other key is as it
\* was, and the value returned is the old value of a key that was present and
\* the zero value otherwise.
C6_InsertStores ==
    [][\A t \in DOMAIN th :
          Returns(t, "Insert") =>
            LET tbl == m[th[t].s]
                new == m'[th[t].s]
                k == th[t].k
            IN /\ (th'[t].err = Nil) <=> (k \notin DOMAIN tbl \/ ~th[t].e)
               /\ (th'[t].err = Nil) =>
                    /\ DOMAIN new = (DOMAIN tbl) \cup {k}
                    /\ new[k] = th[t].v
                    /\ \A x \in (DOMAIN tbl) \ {k} : new[x] = tbl[x]
                    /\ th'[t].r = IF k \in DOMAIN tbl THEN tbl[k] ELSE Zero]_vars

\* Insert has overwritten a value and returned the old one, which is neither
\* the zero value nor the value stored.
C6_Witness ==
    \E t \in DOMAIN th :
        /\ th[t].op = "Insert" /\ th[t].pc = "done" /\ th[t].err = Nil
        /\ th[t].r \notin {Zero, th[t].v}
        /\ m[th[t].s][th[t].k] = th[t].v

\* C7: Get(id) returns the stored value and nil when id is present, and the
\* zero value and ErrMissingKey when it is not; it never returns ErrKeyExists.
C7_GetReturnsStored ==
    [][\A t \in DOMAIN th :
          Returns(t, "Get") =>
            LET tbl == m[th[t].s]
            IN /\ IF th[t].k \in DOMAIN tbl
                  THEN th'[t].r = tbl[th[t].k] /\ th'[t].err = Nil
                  ELSE th'[t].r = Zero /\ th'[t].err = ErrMissingKey
               /\ th'[t].err # ErrKeyExists]_vars

\* Get has returned ErrMissingKey for a key that is not in a non-empty table.
C7_Witness ==
    \E t \in DOMAIN th :
        /\ th[t].op = "Get" /\ th[t].pc = "done" /\ th[t].err = ErrMissingKey
        /\ th[t].k \notin DOMAIN m[th[t].s]
        /\ DOMAIN m[th[t].s] # {}

\* C8: Contains(id) is true exactly when id is present, which is exactly when
\* Get(id) on the same table returns no error.
C8_ContainsIffPresent ==
    [][\A t \in DOMAIN th :
          Returns(t, "Contains") =>
            /\ th'[t].ok <=> (th[t].k \in DOMAIN m[th[t].s])
            /\ th'[t].ok <=> (Get(m[th[t].s], th[t].k).err = Nil)]_vars

\* Contains has returned true for a key that holds the zero value.
C8_Witness ==
    \E t \in DOMAIN th :
        /\ th[t].op = "Contains" /\ th[t].pc = "done" /\ th[t].ok
        /\ m[th[t].s][th[t].k] = Zero

\* C9: Remove(id) returns no error and leaves the table without id and with
\* every other key at its value; on a table without id it changes nothing.
C9_RemoveOnlyKey ==
    [][\A t \in DOMAIN th :
          Returns(t, "Remove") =>
            LET tbl == m[th[t].s]
                new == m'[th[t].s]
            IN /\ DOMAIN new = (DOMAIN tbl) \ {th[t].k}
               /\ \A x \in DOMAIN new : new[x] = tbl[x]
               /\ (th[t].k \notin DOMAIN tbl) => m' = m
               /\ th'[t].err = Nil]_vars

\* Remove has returned and left two keys in the table.
C9_Witness ==
    \E t \in DOMAIN th :
        /\ th[t].op = "Remove" /\ th[t].pc = "done"
        /\ DOMAIN m[th[t].s] = Keys \ {th[t].k}

\* C10: Len() returns the number of distinct keys in the table, and an Insert
\* that overwrites a key leaves the keys, and so their number, as they were.
C10_LenCountsKeys ==
    [][\A t \in DOMAIN th :
          /\ Returns(t, "Len") => th'[t].r = Cardinality(DOMAIN m[th[t].s])
          /\ (Returns(t, "Insert") /\ th[t].k \in DOMAIN m[th[t].s])
               => /\ DOMAIN m'[th[t].s] = DOMAIN m[th[t].s]
                  /\ Cardinality(DOMAIN m'[th[t].s]) = Cardinality(DOMAIN m[th[t].s])]_vars

\* Len has returned 2 on a table whose two keys include one that holds the
\* zero value.
C10_Witness ==
    \E t \in DOMAIN th :
        /\ th[t].op = "Len" /\ th[t].pc = "done" /\ th[t].r = 2
        /\ \E k \in DOMAIN m[th[t].s] : m[th[t].s][k] = Zero

\* The keys "a", "aa", "b" in the ascending order of Go strings.
KeysAscending == <<<<97>>, <<97, 97>>, <<98>>>>

\* C11: GetKeys() returns every key of the table exactly once and nothing
\* else, in ascending order of the key type: each key before every greater
\* one, "a" before "aa" before "b".
C11_GetKeysSorted ==
    [][\A t \in DOMAIN th :
          Returns(t, "GetKeys") =>
            LET out == th'[t].out
                tbl == m[th[t].s]
            IN /\ Len(out) = Cardinality(DOMAIN tbl)
               /\ {out[i] : i \in DOMAIN out} = DOMAIN tbl
               /\ \A i, j \in DOMAIN out : i < j => StrLess(out[i], out[j])
               /\ \A i, j \in DOMAIN out : \A a, b \in DOMAIN KeysAscending :
                      (i < j /\ out[i] = KeysAscending[a] /\ out[j] = KeysAscending[b])
                      => a < b]_vars

\* GetKeys has returned "a", "aa", "b".
C11_Witness ==
    \E t \in DOMAIN th :
        /\ th[t].op = "GetKeys" /\ th[t].pc = "done"
        /\ th[t].out = KeysAscending

\* The keys of a table in ascending order.
Ascending(tbl) ==
    CHOOSE q \in RangeOrders(DOMAIN tbl) :
        \A i, j \in DOMAIN q : i < j => StrLess(q[i], q[j])

RECURSIVE JoinedPairs(_, _, _)
\* The first n pairs key:value of q, one space between two of them.
JoinedPairs(tbl, q, n) ==
    IF n = 0 THEN <<>>
    ELSE (IF n = 1 THEN <<>> ELSE JoinedPairs(tbl, q, n - 1) \o <<32>>)
         \o q[n] \o <<58>> \o SprintInt(tbl[q[n]])

\* map[k1:v1 k2:v2 ...] for a table.
Rendering(tbl) ==
    <<109, 97, 112, 91>> \o JoinedPairs(tbl, Ascending(tbl), Cardinality(DOMAIN tbl))
    \o <<93>>

\* C12: String() returns "map[", the pairs key:value of the table in
\* ascending key order with one space between two pairs and none after the
\* last, and "]", whatever order range visited the keys in: "map[]" for an
\* empty table, "map[a:1 b:-1]" for {"a": 1, "b": -1}.
C12_RenderDeterministic ==
    [][\A t \in DOMAIN th :
          (th[t].pc = "snapped" /\ th[t].op = "String" /\ th'[t].pc = "done") =>
            /\ th[t].loc = m[th[t].s]
            /\ th'[t].out = Rendering(m[th[t].s])
            /\ (DOMAIN th[t].loc = {}) => th'[t].out = <<109, 97, 112, 91, 93>>
            /\ (DOMAIN th[t].loc = {<<97>>, <<98>>} /\ th[t].loc[<<97>>] = 1
                  /\ th[t].loc[<<98>>] = -1)
                 => th'[t].out = <<109, 97, 112, 91, 97, 58, 49, 32, 98, 58, 45, 49, 93>>]_vars

\* String has returned the text of a table with three keys.
C12_Witness ==
    \E t \in DOMAIN th :
        /\ th[t].op = "String" /\ th[t].pc = "done"
        /\ DOMAIN th[t].loc = Keys
        /\ th[t].out = Rendering(th[t].loc)

\* What a map of pointers holds for a reader that follows the pointers.
Pointees(tbl, hp) == [k \in DOMAIN tbl |-> hp[tbl[k]]]

\* The caller acts on what is its own: no call of a method is under way.
OwnerStep == th' = th /\ DOMAIN m' = DOMAIN m

\* A method of the instance takes a step.
InstanceStep == th' # th /\ DOMAIN m' = DOMAIN m

\* New makes a map of its own that holds the pairs of init, and leaves init.
NewCopies ==
    (DOMAIN m' # DOMAIN m \/ \E t \in DOMAIN th : th[t].pc = "start" /\ th'[t].pc # "start")
    => /\ \E o \in (DOMAIN m') \ (DOMAIN m) : m'[o] = m["init"]
       /\ m'["init"] = m["init"]

\* C13 as stated: New copies deeply, so nothing the caller does later to its
\* mapping, the variables its values point to included, changes what the
\* instance holds, and no method of the instance changes what the caller's
\* mapping holds.
C13_DeepCopy ==
    [][/\ NewCopies
       /\ OwnerStep => \A o \in (DOMAIN m) \ {"init"} :
                          /\ m'[o] = m[o]
                          /\ Pointees(m'[o], heap') = Pointees(m[o], heap)
       /\ InstanceStep => /\ m'["init"] = m["init"]
                          /\ Pointees(m'["init"], heap') = Pointees(m["init"], heap)]_vars

\* C13 as amended: New copies every pair of init, by assignment, into a map of
\* its own; an entry that the caller later adds to, removes from or replaces
\* in its mapping leaves the table of the instance as it was, and Insert and
\* Remove leave the caller's mapping as it was.
C13_PairsCopiedNoAlias ==
    [][/\ NewCopies
       /\ OwnerStep => \A o \in (DOMAIN m) \ {"init"} : m'[o] = m[o]
       /\ InstanceStep => m'["init"] = m["init"]]_vars

\* After New, the caller's mapping and the table of the instance have come
\* to differ in their keys.
C13_Witness ==
    /\ DOMAIN m = {"init", "c"}
    /\ DOMAIN m["init"] = {}
    /\ DOMAIN m["c"] = PtrKeys

\* The table that a Merge of the pairs P into the table M leaves.
MergeAll(M, P) ==
    [k \in (DOMAIN M) \cup (DOMAIN P) |-> IF k \in DOMAIN M THEN M[k] ELSE P[k]]

\* A Merge is under way on instance s and has written some, not all, of the
\* pairs it adds.
PartlyMerged(s) ==
    \E u \in DOMAIN th :
        /\ th[u].s = s
        /\ th[u].op = "Merge"
        /\ th[u].pc = "held"
        /\ m[s] \notin {th[u].pre, MergeAll(th[u].pre, th[u].loc)}

\* Goroutine t takes a step that reads the table: the body of Get, Contains,
\* Len or GetKeys, or one round of snap's loop.
ReadsTable(t) ==
    /\ th[t].pc = "held"
    /\ th[t].op \notin WriteOps
    /\ th'[t] # th[t]
    /\ th[t].op \in {"String", "Bytes"} => th[t].todo # {}

\* C14: a mutation is atomic to the other goroutines: no Get, Contains, Len,
\* GetKeys or snapshot reads a table that a Merge under way has written only
\* part of its pairs to, so a reader sees none or all of the keys that the
\* Merge adds; and what Len and GetKeys return is the size and the key set
\* of such a table.
C14_MutationAtomic ==
    [][\A t \in DOMAIN th :
         ReadsTable(t) =>
             LET s == th[t].s
             IN /\ ~PartlyMerged(s)
                /\ \A u \in DOMAIN th :
                     (th[u].s = s /\ th[u].op = "Merge" /\ th[u].pc = "held") =>
                         m[s] \in {th[u].pre, MergeAll(th[u].pre, th[u].loc)}
                /\ Returns(t, "Len") => th'[t].r = Cardinality(DOMAIN m[s])
                /\ Returns(t, "GetKeys") =>
                     {th'[t].out[i] : i \in DOMAIN th'[t].out} = DOMAIN m[s]]_vars

\* A Merge has written one of the two keys it adds, and another goroutine has
\* called Len, GetKeys, String or Bytes and waits for the lock.
C14_Witness ==
    \E t, u \in DOMAIN th :
        /\ t # u
        /\ th[u].s = th[t].s
        /\ PartlyMerged(th[u].s)
        /\ th[u].op = "Merge"
        /\ Cardinality((DOMAIN th[u].loc) \ (DOMAIN th[u].pre)) >= 2
        /\ th[t].pc = "wait"
        /\ th[t].op \in {"Len", "GetKeys", "String", "Bytes"}

\* Goroutine t, past snap, formats or encodes without error.
Formats(t, op) ==
    /\ th[t].pc = "snapped"
    /\ th[t].op = op
    /\ th'[t].pc = "done"
    /\ th'[t].err = Nil

\* C15: String and Bytes work on a snapshot of one instant: when snap
\* returns, its copy is the table as it is at that instant; while the
\* goroutine formats or encodes, without the lock, no step of another
\* goroutine changes the copy; and the text rendered, or the map encoded, is
\* that copy, whatever the table has become.
C15_SnapshotPointInTime ==
    [][\A t \in DOMAIN th :
         /\ (th[t].pc = "held" /\ th'[t].pc = "snapped") =>
                /\ th[t].loc = m[th[t].s]
                /\ th'[t].loc = th[t].loc
         /\ (th[t].pc = "snapped" /\ th'[t].pc = "snapped") =>
                th'[t].loc = th[t].loc
         /\ Formats(t, "String") => th'[t].out = Rendering(th[t].loc)
         /\ Formats(t, "Bytes") =>
                /\ Decode(th'[t].out).err = Nil
                /\ Decode(th'[t].out).m = th[t].loc]_vars

\* A goroutine holds a snapshot of two pairs that it has yet to format or
\* encode, and another goroutine has changed the table since.
C15_Witness ==
    \E t \in DOMAIN th :
        /\ th[t].pc = "snapped"
        /\ th[t].op \in {"String", "Bytes"}
        /\ DOMAIN th[t].loc = SharedKeys
        /\ m[th[t].s] # th[t].loc

\* Goroutine t is inside a call of a method.
InCall(t) == th[t].pc \notin {"idle", "done"}

\* C16: under fair scheduling every call returns; a goroutine that is not
\* inside a call holds no lock, whether its call failed or not, so the lock
\* is free whenever no call is in progress.
C16_ReturnsAndReleases ==
    /\ \A t \in Goroutines : InCall(t) ~> th[t].pc = "done"
    /\ [](\A t \in Goroutines :
            ~InCall(t) => \A s \in DOMAIN lck : t \notin lck[s].w \cup lck[s].r)
    /\ []((\A t \in Goroutines : ~InCall(t)) =>
            \A s \in DOMAIN lck : lck[s] = Unlocked)

\* Bytes has returned the error of its encoder and Merge the error of its
\* decoder, and the lock is free.
C16_Witness ==
    \E t, u \in Goroutines :
        /\ th[t].pc = "done" /\ th[t].op = "Bytes" /\ th[t].err = ErrEncode
        /\ th[u].pc = "done" /\ th[u].op = "Merge" /\ th[u].err = ErrDecode
        /\ lck["c1"] = Unlocked

\* Goroutine t is inside the critical section of its method.
Inside(t) == th[t].pc = "held"

\* C17: a goroutine inside a critical section holds the lock, exclusive for
\* Insert, Remove and Merge and shared for the others; a writer is never
\* inside together with another writer or a reader; and every step that
\* changes or reads the table is a step of a goroutine that holds the lock.
C17_LockedAccess ==
    /\ [](\A t \in DOMAIN th :
            Inside(t) =>
                LET s == th[t].s
                IN /\ th[t].op \in WriteOps =>
                        /\ lck[s] = [w |-> {t}, r |-> {}]
                        /\ \A u \in (DOMAIN th) \ {t} : ~(Inside(u) /\ th[u].s = s)
                   /\ th[t].op \notin WriteOps => t \in lck[s].r)
    /\ [][/\ \A s \in DOMAIN m :
               m'[s] # m[s] =>
                   \E t \in DOMAIN th :
                       /\ th[t].s = s /\ Inside(t) /\ th[t].op \in WriteOps
                       /\ th'[t] # th[t]
                       /\ lck[s].w = {t}
          /\ \A t \in DOMAIN th : ReadsTable(t) => t \in lck[th[t].s].r]_vars

\* A writer has called Lock while a reader is inside, and is kept out until
\* the reader leaves.
C17_Witness ==
    \E t, u \in Goroutines :
        /\ th[t].pc = "drain"
        /\ th[t].op \in WriteOps
        /\ Inside(u)
        /\ th[u].op \notin WriteOps
        /\ lck["c1"] = [w |-> {t}, r |-> {u}]

\* C18: readers do not block each other: a goroutine that has called Get,
\* Contains, Len, GetKeys, String or Bytes and waits for the lock can take it
\* whenever no writer has it or has called for it, however many readers are
\* inside; and taking it leaves the readers inside where they are.
C18_ReadersShare ==
    /\ [](\A t \in DOMAIN th :
            (th[t].pc = "wait" /\ th[t].op \notin WriteOps /\ lck[th[t].s].w = {})
                => ENABLED RLock(t))
    /\ [][\A t \in DOMAIN th :
            (th[t].pc = "wait" /\ th[t].op \notin WriteOps /\ Inside(t)')
                => /\ lck'[th[t].s].r = lck[th[t].s].r \cup {t}
                   /\ \A u \in (DOMAIN th) \ {t} : th'[u] = th[u]]_vars

\* Two readers are inside their critical sections at once, one in Get and
\* one in snap's loop.
C18_Witness ==
    \E t, u \in Goroutines :
        /\ t # u
        /\ Inside(t) /\ th[t].op = "Get"
        /\ Inside(u) /\ th[u].op \in {"String", "Bytes"} /\ th[u].todo # {}
        /\ lck["c1"] = [w |-> {}, r |-> {t, u}]

\* The goroutines whose Insert has returned, and those among them whose
\* Insert returned no error.
Returned == {n \in DOMAIN th : th[n].pc = "done" /\ th[n].op = "Insert"}
Succeeded == {n \in Returned : th[n].err = Nil}

\* C19: of the calls Insert(k, v, true) of several goroutines with the same
\* absent key, as soon as one has returned exactly one has returned without
\* error, and the table holds its value at k; every other call returns
\* ErrKeyExists; all of them return the zero value.
C19_OneInsertWins ==
    /\ Cardinality(Succeeded) <= 1
    /\ \A n \in Returned :
         /\ th[n].r = Zero
         /\ n \notin Succeeded => th[n].err = ErrKeyExists
    /\ Returned # {} =>
         \E n \in Succeeded :
             /\ th[n].k \in DOMAIN m["m"]
             /\ m["m"][th[n].k] = th[n].v

\* Every goroutine has returned, and the one without error is neither the
\* first nor the last of them.
C19_Witness ==
    /\ Returned = Workers
    /\ \E n \in Succeeded : n # 0 /\ n # NumWorkers - 1

\* C20: Merge decodes before it locks and tests for each key under the
\* lock, so it never replaces what a concurrent Insert wrote: the decoding
\* step leaves the lock alone, every round of Merge's loop runs with the lock
\* held by Merge alone, and once Insert(k, v, false) has returned the table
\* holds v at k, whether Merge wrote its pair of k before, wrote its other
\* pairs after, or has yet to run.
C20_MergeKeepsInsert ==
    /\ [](th["inserter"].pc = "done" =>
            /\ th["inserter"].k \in DOMAIN m["c1"]
            /\ m["c1"][th["inserter"].k] = th["inserter"].v
            /\ th["inserter"].err = Nil)
    /\ [][/\ (th["merger"].pc = "start" /\ th'["merger"].pc = "wait") =>
                /\ lck' = lck
                /\ lck["c1"].w # {"merger"}
                /\ th["merger"].k \in DOMAIN th'["merger"].loc
          /\ m' # m =>
                \E t \in {"inserter", "merger"} :
                    th[t].pc = "held" /\ lck["c1"] = [w |-> {t}, r |-> {}]]_vars

\* Both calls have returned; Merge took the lock first and wrote its pair
\* (k, w), which Insert found, returned as the old value and replaced by v.
C20_Witness ==
    /\ th["inserter"].pc = "done"
    /\ th["merger"].pc = "done"
    /\ th["merger"].err = Nil
    /\ th["merger"].loc[th["inserter"].k] # th["inserter"].v
    /\ th["merger"].loc[th["inserter"].k] # Zero
    /\ th["inserter"].r = th["merger"].loc[th["inserter"].k]
    /\ m["c1"][th["inserter"].k] = th["inserter"].v

====
